---- MODULE Spec2Model ----
(***************************************************************************)
(* State-machine model of the Wine Enthusiast Playwright scraper           *)
(* (src/src/VineMatch/providers/scrapers/we_playwright.py).                *)
(*                                                                         *)
(* Text read from a page is a sequence of tokens: a word is one token, WS  *)
(* is a run of whitespace; other strings are TLA+ strings.  An optional    *)
(* Python value is a set: None is the empty set, a present value x is      *)
(* Some(x).  A Python dict with string keys is a function whose domain is  *)
(* the set of its keys.  A URL is the sequence of the string pieces it is  *)
(* concatenated from.                                                      *)
(***************************************************************************)
EXTENDS Integers, Sequences, FiniteSets, TLC

VARIABLES
    cmd,      \* the operation this run performs
    cfg,      \* the scraper's BrowserConfig
    args,     \* the arguments of the operation
    pc,       \* position in the operation
    i,        \* loop position of the operation
    rows,     \* the operation's accumulated rows
    visited,  \* search pages navigated to so far (collect_links)
    out_file, \* content of the output CSV, None until first written
    writes,   \* every content written to the output CSV, in order
    result,   \* the operation's return value, None until it returns
    exc,      \* the exception in flight, None when there is none
    fd,       \* frame of the fetch_detail call in progress
    sess,     \* the browser session: handles, open count, teardown log
    page,     \* what the live page shows
    hc        \* frame of the _handle_challenge call in progress

vars == <<cmd, cfg, args, pc, i, rows, visited, out_file, writes, result, exc,
          fd, sess, page, hc>>

-----------------------------------------------------------------------------
(* Values *)

None == {}
Some(x) == {x}
The(o) == CHOOSE x \in o : TRUE

WS == " "
BASE == "https://www.wineenthusiast.com/"

\* Bounds of the explored inputs.
MaxRegions == 3
MaxLinks == 3
MaxPage == 3

RegionNames == {"Napa", "California", "USA"}

\* What text_content() can return for a region element: nothing, blank text,
\* a name, or a name with surrounding whitespace.
RawRegionTexts ==
    {None, Some(<<WS>>)} \cup {Some(<<n>>) : n \in RegionNames}
        \cup {Some(<<WS, n, WS>>) : n \in RegionNames}

SeqsUpTo(S, n) == UNION {[1..k -> S] : k \in 0..n}

-----------------------------------------------------------------------------
(* Text helpers: str.strip(), "x or ''", "x or None" *)

RECURSIVE LStrip(_)
LStrip(t) == IF t # <<>> /\ Head(t) = WS THEN LStrip(Tail(t)) ELSE t

RECURSIVE RStrip(_)
RStrip(t) ==
    IF t # <<>> /\ t[Len(t)] = WS THEN RStrip(SubSeq(t, 1, Len(t) - 1)) ELSE t

Strip(t) == RStrip(LStrip(t))

OrEmpty(o) == IF o = None THEN <<>> ELSE The(o)

OrNone(t) == IF t = <<>> THEN None ELSE Some(t)

\* (x.text_content() or "").strip()
StrippedText(raw) == Strip(OrEmpty(raw))

\* (x.text_content() or "").strip() or None
TextOrNone(raw) == OrNone(StrippedText(raw))

-----------------------------------------------------------------------------
(* _build_search_url *)

RECURSIVE Join(_, _)
Join(ps, sep) ==
    IF Len(ps) = 0 THEN <<>>
    ELSE IF Len(ps) = 1 THEN ps[1]
    ELSE ps[1] \o <<sep>> \o Join(Tail(ps), sep)

\* Python truthiness of an optional str / optional int argument.
TruthyStr(o) == o # None /\ The(o) # ""
TruthyInt(o) == o # None /\ The(o) # 0

\* f"{x}" of an optional value
Format(o) == IF o = None THEN "None" ELSE The(o)

StyleParamAlways(style) == <<<<"wine_style=", Format(style)>>>>

StyleParam(style) == IF TruthyStr(style) THEN <<<<"wine_style=", The(style)>>>> ELSE <<>>

YearParam(year) ==
    IF TruthyInt(year) THEN <<<<"pub_date=", "%253A", ToString(The(year))>>>> ELSE <<>>

build_search_url(pg, style, year) ==
    <<BASE>> \o Join(<<<<"?s=">>, <<"search_type=ratings">>, <<"page=", ToString(pg)>>,
                       <<"drink_type=wine">>>> \o StyleParam(style) \o YearParam(year),
                     "&")

-----------------------------------------------------------------------------
(* fetch_detail: region assignment *)

\* region_list = [strip(text) for e in region_elems]; keep the non-empty ones
RECURSIVE RegionList(_)
RegionList(raws) ==
    IF raws = <<>> THEN <<>>
    ELSE LET x == StrippedText(Head(raws))
         IN  (IF x # <<>> THEN <<x>> ELSE <<>>) \o RegionList(Tail(raws))

\* Python's region_list[-k]
FromEnd(L, k) == L[Len(L) - k + 1]

In(x, L) == \E j \in 1..Len(L) : L[j] = x

CountryOf(L) == IF L # <<>> THEN Some(FromEnd(L, 1)) ELSE None

Region1NoMembership(L, v) == v

Region1Of(L, v) == IF v # None /\ In(The(v), L) THEN v ELSE None

Region2Of(L, v) ==
    IF Len(L) > 1 /\ Some(FromEnd(L, 2)) # v THEN Some(FromEnd(L, 2)) ELSE None

Region3Of(L, v) ==
    IF Len(L) > 2 /\ Some(FromEnd(L, 3)) # v THEN Some(FromEnd(L, 3)) ELSE None

RegionFields(raws, rawValue) ==
    LET region_list == RegionList(raws)
        region_value == TextOrNone(rawValue)
    IN  [region_list |-> region_list,
         region_value |-> region_value,
         country |-> CountryOf(region_list),
         region_1 |-> Region1Of(region_list, region_value),
         region_2 |-> Region2Of(region_list, region_value),
         region_3 |-> Region3Of(region_list, region_value)]

-----------------------------------------------------------------------------
(* collect_links: deduplication of the collected rows *)

LinkRow(name, url) == ("Wine Name" :> name) @@ ("URL" :> url)

RECURSIVE KeepLast(_)
KeepLast(df) ==
    IF df = <<>> THEN <<>>
    ELSE IF \E j \in 2..Len(df) : df[j]["URL"] = df[1]["URL"]
         THEN KeepLast(Tail(df))
         ELSE <<df[1]>> \o KeepLast(Tail(df))

\* df.drop_duplicates(subset=["URL"]).reset_index(drop=True): keep="first"
RECURSIVE drop_duplicates(_)
drop_duplicates(df) ==
    IF df = <<>> THEN <<>>
    ELSE LET n == Len(df)
             front == drop_duplicates(SubSeq(df, 1, n - 1))
         IN  IF \E j \in 1..(n - 1) : df[j]["URL"] = df[n]["URL"]
             THEN front
             ELSE Append(front, df[n])

\* df = pd.DataFrame(rows); if not df.empty: df = df.drop_duplicates(...)
Deduplicated(rs) == IF rs # <<>> THEN drop_duplicates(rs) ELSE rs

-----------------------------------------------------------------------------
(* Frames and handles at rest *)

NoFrame == [pc |-> "idle"]
NoSession == [context |-> "none", browser |-> "none", open |-> 0, opened |-> 0,
              stored |-> FALSE, seeded |-> FALSE, log |-> <<>>]
NoPage == [phrases |-> {}, frames |-> 0]
NoConfig == [user_data_dir |-> None, storage_state_path |-> None,
             manual_challenge |-> FALSE, challenge_timeout_s |-> 0,
             cooldown_range_s |-> <<0, 0>>]

\* Everything but the call itself, for the runs that apply one function to
\* inputs drawn from bounded sets: _build_search_url, the region assignment of
\* fetch_detail, and the deduplicating tail of collect_links (from the state
\* after its session is torn down, with any collected rows).
AtRest ==
    /\ cfg = NoConfig
    /\ i = 0
    /\ visited = <<>>
    /\ out_file = None
    /\ writes = <<>>
    /\ result = None
    /\ exc = None
    /\ fd = NoFrame
    /\ sess = NoSession
    /\ page = NoPage
    /\ hc = NoFrame

-----------------------------------------------------------------------------
(* Single functions, each applied to inputs drawn from bounded sets *)

StyleArgs == {None, Some(""), Some("Red"), Some("Port%252FSherry")}
YearArgs == {None, Some(0), Some(2020), Some(2021)}

LinkNames == {<<"Merlot">>, <<"Syrah">>}
LinkUrls == {"u1", "u2"}
LinkRows == {LinkRow(n, u) : n \in LinkNames, u \in LinkUrls}

InitPure ==
    /\ AtRest
    /\ \/ /\ cmd = "_build_search_url"
          /\ pc = "call"
          /\ args \in [page : 1..MaxPage, style : StyleArgs, year : YearArgs]
          /\ rows = <<>>
       \/ /\ cmd = "region_assignment"
          /\ pc = "call"
          /\ args \in [region_elems : SeqsUpTo(RawRegionTexts, MaxRegions),
                       region_value : RawRegionTexts]
          /\ rows = <<>>
       \/ /\ cmd = "links"
          /\ pc = "frame"
          /\ args \in [max_pages : {0}, styles : {None}, years : {None},
                       out_csv : {None, Some("links.csv")}]
          /\ rows \in SeqsUpTo(LinkRows, MaxLinks)

ApplyBuildSearchUrl ==
    /\ cmd = "_build_search_url" /\ pc = "call"
    /\ result' = Some(build_search_url(args.page, args.style, args.year))
    /\ pc' = "done"
    /\ UNCHANGED <<cmd, cfg, args, i, rows, visited, out_file, writes, exc, fd, sess, page, hc>>

ApplyRegionAssignment ==
    /\ cmd = "region_assignment" /\ pc = "call"
    /\ result' = Some(RegionFields(args.region_elems, args.region_value))
    /\ pc' = "done"
    /\ UNCHANGED <<cmd, cfg, args, i, rows, visited, out_file, writes, exc, fd, sess, page, hc>>

-----------------------------------------------------------------------------
(* BrowserConfig *)

\* Bounds: the challenge timeout and the cooldown window, in seconds, and the
\* seconds one poll of the manual-challenge loop can take.
ChallengeTimeout == 2
CooldownMin == 1
CooldownMax == 2

Configs ==
    [user_data_dir : {None, Some(".we_profile")},
     storage_state_path : {None, Some(".we_storage_state.json")},
     manual_challenge : BOOLEAN,
     challenge_timeout_s : {ChallengeTimeout},
     cooldown_range_s : {<<CooldownMin, CooldownMax>>}]

-----------------------------------------------------------------------------
(* _looks_like_challenge, _handle_challenge *)

ChallengePhrases == {"unusual activity", "verify you are a human", "captcha"}

\* A page: the phrases its lower-cased body text contains, and the number of
\* iframes whose src contains "captcha" or "challenge".
CleanPage == [phrases |-> {"ratings"}, frames |-> 0]
PageSamples ==
    {CleanPage,
     [phrases |-> {"ratings", "captcha"}, frames |-> 0],
     [phrases |-> {"ratings"}, frames |-> 1]}

looks_like_challenge(p) ==
    \/ p.phrases \cap ChallengePhrases # {}
    \/ p.frames > 0

\* _human_pause(1.0, 2.0), in whole seconds
PollPause == {1, 2}

\* The call: the caller has navigated and hands over the page.
HandleChallengeCall == [pc |-> "entry", entry |-> FALSE, elapsed |-> 0, cooldown |-> None]

\* Lines 131-135: not challenged, return; else the deadline is set, and the
\* manual branch prints its prompt and enters the poll loop.
HC_Entry ==
    /\ hc.pc = "entry"
    /\ hc' = IF ~looks_like_challenge(page)
             THEN [hc EXCEPT !.pc = "returned"]
             ELSE [hc EXCEPT !.entry = TRUE,
                             !.pc = IF cfg.manual_challenge THEN "poll" ELSE "cooldown"]
    /\ UNCHANGED <<cmd, cfg, args, pc, i, rows, visited, out_file, writes, result, exc,
                   fd, sess, page>>

\* Lines 137-140, one iteration: pause, then look again; the operator may have
\* solved the challenge meanwhile.
HC_Poll ==
    /\ hc.pc = "poll"
    /\ hc.elapsed < cfg.challenge_timeout_s
    /\ \E d \in PollPause, p \in {page, CleanPage} :
        /\ page' = p
        /\ hc' = [hc EXCEPT !.elapsed = @ + d,
                            !.pc = IF ~looks_like_challenge(p) THEN "returned" ELSE "poll"]
    /\ UNCHANGED <<cmd, cfg, args, pc, i, rows, visited, out_file, writes, result, exc,
                   fd, sess>>

\* Line 137: the deadline has passed.
HC_Deadline ==
    /\ hc.pc = "poll"
    /\ hc.elapsed >= cfg.challenge_timeout_s
    /\ hc' = [hc EXCEPT !.pc = "cooldown"]
    /\ UNCHANGED <<cmd, cfg, args, pc, i, rows, visited, out_file, writes, result, exc,
                   fd, sess, page>>

\* Lines 142-144: sleep(randint(*cfg.cooldown_range_s))
HC_Cooldown ==
    /\ hc.pc = "cooldown"
    /\ \E wait_s \in cfg.cooldown_range_s[1]..cfg.cooldown_range_s[2] :
        hc' = [hc EXCEPT !.cooldown = Some(wait_s), !.pc = "returned"]
    /\ UNCHANGED <<cmd, cfg, args, pc, i, rows, visited, out_file, writes, result, exc,
                   fd, sess, page>>

HandleChallenge == HC_Entry \/ HC_Poll \/ HC_Deadline \/ HC_Cooldown

-----------------------------------------------------------------------------
(* Session: _new_context, _save_state, teardown *)

\* _new_context: persistent profile (no browser handle) or ephemeral context,
\* seeded from the storage-state file when it is configured and exists.
new_context(s) ==
    IF TruthyStr(cfg.user_data_dir)
    THEN [s EXCEPT !.context = "open", !.browser = "none", !.seeded = FALSE,
                   !.open = @ + 1, !.opened = @ + 1, !.log = <<"open">>]
    ELSE [s EXCEPT !.context = "open", !.browser = "open",
                   !.seeded = TruthyStr(cfg.storage_state_path) /\ s.stored,
                   !.open = @ + 1, !.opened = @ + 1, !.log = <<"open">>]

\* _save_state: whether it calls context.storage_state at all
SavesState == TruthyStr(cfg.storage_state_path)

StateSaved(s) == [s EXCEPT !.stored = TRUE, !.log = Append(@, "save")]
StateSaveFailed(s) == [s EXCEPT !.log = Append(@, "save failed")]

\* context.close() left out
ContextLeftOpen(s) == s

ContextClosed(s) ==
    [s EXCEPT !.context = "closed", !.open = @ - 1, !.log = Append(@, "context.close")]

BrowserClosed(s) == [s EXCEPT !.browser = "closed", !.log = Append(@, "browser.close")]

\* The driver left running, with whatever it launched
DriverLeftRunning(s) == s

\* Leaving "with sync_playwright()": the driver stops and takes down whatever
\* it launched that is still open.
PlaywrightStopped(s) ==
    [s EXCEPT !.context = IF @ = "open" THEN "terminated" ELSE @,
              !.browser = IF @ = "open" THEN "terminated" ELSE @,
              !.open = IF s.context = "open" THEN @ - 1 ELSE @,
              !.log = IF s.context = "open" \/ s.browser = "open"
                      THEN Append(@, "driver stop") ELSE @]

-----------------------------------------------------------------------------
(* fetch_detail *)

\* What the site serves at a review URL: the raw text_content() of each
\* element fetch_detail reads.
SiteContent(url) ==
    IF url = "u1"
    THEN [title |-> Some(<<WS, "Cabernet", WS>>),
          region_elems |-> <<Some(<<"Napa">>), Some(<<"California">>), Some(<<"USA">>)>>,
          region_value |-> Some(<<"Napa">>),
          score |-> Some(<<"RATING", WS, "92">>),
          price |-> Some(<<"PRICE", WS, "$30">>),
          winery |-> Some(<<"Stag">>),
          variety |-> Some(<<"Cabernet">>),
          wine_type |-> Some(<<"Red">>)]
    ELSE [title |-> Some(<<"Riesling">>),
          region_elems |-> <<Some(<<"USA">>)>>,
          region_value |-> Some(<<"USA">>),
          score |-> Some(<<"90">>),
          price |-> None,
          winery |-> Some(<<WS>>),
          variety |-> None,
          wine_type |-> Some(<<"White">>)]

\* _strip_label(text, label)
strip_label(text, label) ==
    IF text = None \/ The(text) = <<>> THEN None
    ELSE IF Head(The(text)) = label THEN Some(Strip(Tail(The(text))))
    ELSE Some(Strip(The(text)))

DetailKeys ==
    {"Wine Name", "Region 1", "Region 2", "Region 3", "Country", "Score", "Price",
     "Winery", "Variety", "Wine Type", "URL"}

\* Lines 292-354: the record assembled from the page
DetailRecord(c, url) ==
    LET r == RegionFields(c.region_elems, c.region_value)
    IN  ("Wine Name" :> TextOrNone(c.title))
        @@ ("Region 1" :> r.region_1) @@ ("Region 2" :> r.region_2)
        @@ ("Region 3" :> r.region_3) @@ ("Country" :> r.country)
        @@ ("Score" :> strip_label(TextOrNone(c.score), "RATING"))
        @@ ("Price" :> strip_label(TextOrNone(c.price), "PRICE"))
        @@ ("Winery" :> TextOrNone(c.winery))
        @@ ("Variety" :> TextOrNone(c.variety))
        @@ ("Wine Type" :> TextOrNone(c.wine_type))
        @@ ("URL" :> url)

\* What the Playwright calls can raise: TimeoutError from a wait, Error from
\* a navigation or from context.storage_state.
TimeoutError == [type |-> "TimeoutError", msg |-> "Timeout exceeded."]
PlaywrightError == [type |-> "Error", msg |-> "Target closed"]

\* The classes "except Exception" catches
ExceptionTypes == {"Exception", "Error", "TimeoutError"}

FetchDetailCall(url) == [pc |-> "call", url |-> url, rec |-> None]

\* Lines 286-287: enter the with block and open the session.
FD_Open ==
    /\ fd.pc = "call"
    /\ sess' = new_context(sess)
    /\ fd' = [fd EXCEPT !.pc = "goto"]
    /\ UNCHANGED <<cmd, cfg, args, pc, i, rows, visited, out_file, writes, result, exc, page, hc>>

\* Lines 289-290: navigate, then hand the page to _handle_challenge; a failed
\* navigation raises.
FD_Goto ==
    /\ fd.pc = "goto"
    /\ \/ \E p \in PageSamples :
            /\ page' = p
            /\ hc' = HandleChallengeCall
            /\ fd' = [fd EXCEPT !.pc = "challenge"]
            /\ UNCHANGED exc
       \/ /\ exc' = Some(PlaywrightError)
          /\ fd' = [fd EXCEPT !.pc = "finally"]
          /\ UNCHANGED <<page, hc>>
    /\ UNCHANGED <<cmd, cfg, args, pc, i, rows, visited, out_file, writes, result, sess>>

\* Lines 291-354: wait for the title (a timeout raises), then read the fields
\* and return the record.
FD_Extract ==
    /\ fd.pc = "challenge"
    /\ hc.pc = "returned"
    /\ hc' = NoFrame
    /\ \/ /\ exc' = Some(TimeoutError)
          /\ fd' = [fd EXCEPT !.pc = "finally"]
       \/ /\ fd' = [fd EXCEPT !.rec = Some(DetailRecord(SiteContent(fd.url), fd.url)),
                              !.pc = "finally"]
          /\ UNCHANGED exc
    /\ UNCHANGED <<cmd, cfg, args, pc, i, rows, visited, out_file, writes, result,
                   sess, page>>

\* Line 356: finally, first _save_state; context.storage_state can raise, and
\* then the exception leaves the finally block at once.
FD_SaveState ==
    /\ fd.pc = "finally"
    /\ \/ /\ ~SavesState
          /\ fd' = [fd EXCEPT !.pc = "close_context"]
          /\ UNCHANGED <<sess, exc>>
       \/ /\ SavesState
          /\ sess' = StateSaved(sess)
          /\ fd' = [fd EXCEPT !.pc = "close_context"]
          /\ UNCHANGED exc
       \/ /\ SavesState
          /\ sess' = StateSaveFailed(sess)
          /\ exc' = Some(PlaywrightError)
          /\ fd' = [fd EXCEPT !.rec = None, !.pc = "exit"]
    /\ UNCHANGED <<cmd, cfg, args, pc, i, rows, visited, out_file, writes, result, page, hc>>

\* Lines 357-358: context.close(), then the test of the browser handle.
FD_CloseContext ==
    /\ fd.pc = "close_context"
    /\ sess' = ContextClosed(sess)
    /\ fd' = [fd EXCEPT !.pc = IF sess.browser = "open" THEN "close_browser" ELSE "exit"]
    /\ UNCHANGED <<cmd, cfg, args, pc, i, rows, visited, out_file, writes, result, exc, page, hc>>

\* Line 359: browser.close()
FD_CloseBrowser ==
    /\ fd.pc = "close_browser"
    /\ sess' = BrowserClosed(sess)
    /\ fd' = [fd EXCEPT !.pc = "exit"]
    /\ UNCHANGED <<cmd, cfg, args, pc, i, rows, visited, out_file, writes, result, exc, page, hc>>

\* Line 286: leave the with block; the record or the exception reaches the caller.
FD_Exit ==
    /\ fd.pc = "exit"
    /\ sess' = PlaywrightStopped(sess)
    /\ page' = NoPage
    /\ fd' = [fd EXCEPT !.pc = "done"]
    /\ UNCHANGED <<cmd, cfg, args, pc, i, rows, visited, out_file, writes, result, exc, hc>>

FetchDetail ==
    FD_Open \/ FD_Goto \/ FD_Extract \/ FD_SaveState \/ FD_CloseContext
        \/ FD_CloseBrowser \/ FD_Exit

-----------------------------------------------------------------------------
(* scrape_details_from_csv *)

\* Bounds: rows of the links CSV, and the checkpoint interval.
MaxRows == 2
MaxEvery == 2

\* A CSV cell as pandas reads it: a missing value (float nan) or a string.
NanCell == [kind |-> "nan"]
StrCell(x) == [kind |-> "str", v |-> x]
UrlCells == {NanCell, StrCell("u1"), StrCell("u2")}

\* str(cell)
PyStr(cell) == IF cell.kind = "nan" THEN "nan" ELSE cell.v

ColumnSets == {{"Wine Name", "URL"}, {"Wine Name", "url"}, {"Wine Name"}}

RowsOver(C) ==
    {[c \in C |-> IF c = "Wine Name" THEN StrCell("w") ELSE x] : x \in UrlCells}

\* pd.read_csv(links_csv)
LinkFrames ==
    UNION {{[columns |-> C, data |-> d] : d \in SeqsUpTo(RowsOver(C), MaxRows)} :
           C \in ColumnSets}

\* Line 381: the row's URL, "" when the frame has neither column
RowUrl(df, r) ==
    IF "URL" \in df.columns THEN PyStr(r["URL"])
    ELSE IF "url" \in DOMAIN r THEN PyStr(r["url"])
    ELSE ""

\* Line 388: {"URL": url, "error": str(exc)}
ErrorRecord(url, e) == ("URL" :> url) @@ ("error" :> e.msg)

\* Line 387: except Exception
CatchesTimeoutOnly(e) == e.type = "TimeoutError"

Catches(e) == e.type \in ExceptionTypes

\* Lines 386, 388: rows.append(...)
Prepended(rs, rec) == <<rec>> \o rs

Appended(rs, rec) == Append(rs, rec)

\* Line 389, with the row's index label taken as its position
CheckpointsOffByOne(idx) ==
    TruthyStr(args.out_csv) /\ idx % args.checkpoint_every = 0

\* Line 389: whether the row with index label idx is followed by a checkpoint
Checkpoints(idx) ==
    TruthyStr(args.out_csv) /\ (idx + 1) % args.checkpoint_every = 0

InitDetails ==
    /\ cmd = "details"
    /\ cfg \in Configs
    /\ args \in [df_links : LinkFrames, out_csv : {None, Some("out.csv")},
                 checkpoint_every : 1..MaxEvery]
    /\ pc = "loop"
    /\ i = 0
    /\ rows = <<>>
    /\ visited = <<>>
    /\ out_file = None
    /\ writes = <<>>
    /\ result = None
    /\ exc = None
    /\ fd = NoFrame
    /\ sess = NoSession
    /\ page = NoPage
    /\ hc = NoFrame

\* Lines 380-385: the next row; a row without URL is skipped, else fetch_detail
\* is called.
SD_Row ==
    /\ cmd = "details" /\ pc = "loop" /\ fd.pc = "idle"
    /\ i < Len(args.df_links.data)
    /\ LET url == RowUrl(args.df_links, args.df_links.data[i + 1])
       IN  IF url = ""
           THEN i' = i + 1 /\ UNCHANGED fd
           ELSE fd' = FetchDetailCall(url) /\ UNCHANGED i
    /\ UNCHANGED <<cmd, cfg, args, pc, rows, visited, out_file, writes, result, exc,
                   sess, page, hc>>

\* Lines 385-392: fetch_detail has returned or raised; append the record or
\* the error record, then the checkpoint write.
SD_Collect ==
    /\ cmd = "details" /\ pc = "loop" /\ fd.pc = "done"
    /\ fd' = NoFrame
    /\ IF exc # None /\ ~Catches(The(exc))
       THEN /\ pc' = "raised"
            /\ UNCHANGED <<i, rows, out_file, writes, exc>>
       ELSE LET rec == IF exc = None THEN The(fd.rec) ELSE ErrorRecord(fd.url, The(exc))
                acc == Appended(rows, rec)
            IN  /\ rows' = acc
                /\ exc' = None
                /\ IF Checkpoints(i)
                   THEN out_file' = Some(acc) /\ writes' = Append(writes, acc)
                   ELSE UNCHANGED <<out_file, writes>>
                /\ i' = i + 1
                /\ pc' = pc
    /\ UNCHANGED <<cmd, cfg, args, visited, result, sess, page, hc>>

\* Lines 393-397: the final write and the return.
SD_Finish ==
    /\ cmd = "details" /\ pc = "loop" /\ fd.pc = "idle"
    /\ i = Len(args.df_links.data)
    /\ result' = Some(rows)
    /\ IF TruthyStr(args.out_csv)
       THEN out_file' = Some(rows) /\ writes' = Append(writes, rows)
       ELSE UNCHANGED <<out_file, writes>>
    /\ pc' = "done"
    /\ UNCHANGED <<cmd, cfg, args, i, rows, visited, exc, fd, sess, page, hc>>

Next == SD_Row \/ SD_Collect \/ SD_Finish \/ FetchDetail \/ HandleChallenge

Spec == InitDetails /\ [][Next]_vars

-----------------------------------------------------------------------------
(* collect_links *)

\* Bound: pages per (style, year) combination.
MaxPages == 2

StyleLists == {None, Some(<<>>), Some(<<"Red">>), Some(<<"Red", "White">>)}
YearLists == {None, Some(<<>>), Some(<<2020>>), Some(<<2020, 2021>>)}

RECURSIVE EachSome(_)
EachSome(xs) == IF xs = <<>> THEN <<>> ELSE <<Some(Head(xs))>> \o EachSome(Tail(xs))

\* Lines 231-232: list(xs) if xs else [None]
IterOrSentinel(xs) == IF xs # None /\ The(xs) # <<>> THEN EachSome(The(xs)) ELSE <<None>>

styles_iter == IterOrSentinel(args.styles)
years_iter == IterOrSentinel(args.years)

\* Lines 237-239: the three nested loops.  A position is the indices of the
\* next page to visit; the loops are exhausted when the style index runs out.
FirstPos == [s |-> 1, y |-> 1, pg |-> 1]

HasPage(pos) == pos.s <= Len(styles_iter) /\ args.max_pages >= 1

NextPos(pos) ==
    IF pos.pg < args.max_pages THEN [pos EXCEPT !.pg = @ + 1]
    ELSE IF pos.y < Len(years_iter) THEN [pos EXCEPT !.y = @ + 1, !.pg = 1]
    ELSE [s |-> pos.s + 1, y |-> 1, pg |-> 1]

\* Line 250: where the loops go on after the listing wait has timed out
EndsIteration(pos) == [s |-> Len(styles_iter) + 1, y |-> 1, pg |-> 1]

AfterTimeout(pos) == NextPos(pos)

\* The listing anchors the site serves on a search page: raw text and href.
Anchor(text, href) == [text |-> text, href |-> href]

ListingAnchors(pg) ==
    IF pg = 1
    THEN <<Anchor(Some(<<WS, "Merlot">>), Some("u1")),
           Anchor(Some(<<WS>>), Some("u3")),
           Anchor(Some(<<"Syrah">>), Some("u2"))>>
    ELSE <<Anchor(Some(<<"Merlot", WS, "Reserve">>), Some("u1")),
           Anchor(Some(<<"Pinot">>), Some("")),
           Anchor(None, Some("u4")),
           Anchor(Some(<<"Gamay">>), None)>>

\* Lines 254-258: the (name, href) pairs with both parts non-empty
RECURSIVE LinksOf(_)
LinksOf(anchors) ==
    IF anchors = <<>> THEN <<>>
    ELSE LET name == StrippedText(Head(anchors).text)
             href == Head(anchors).href
         IN  (IF name # <<>> /\ TruthyStr(href) THEN <<LinkRow(name, The(href))>> ELSE <<>>)
             \o LinksOf(Tail(anchors))

InitLinks ==
    /\ cmd = "links"
    /\ cfg \in Configs
    /\ args \in [max_pages : 0..MaxPages, styles : StyleLists, years : YearLists,
                 out_csv : {None, Some("links.csv")}]
    /\ pc = "start"
    /\ i = FirstPos
    /\ rows = <<>>
    /\ visited = <<>>
    /\ out_file = None
    /\ writes = <<>>
    /\ result = None
    /\ exc = None
    /\ fd = NoFrame
    /\ sess = NoSession
    /\ page = NoPage
    /\ hc = NoFrame

\* Lines 234-235: enter the with block and open the session.
CL_Open ==
    /\ cmd = "links" /\ pc = "start"
    /\ sess' = new_context(sess)
    /\ pc' = "loop"
    /\ UNCHANGED <<cmd, cfg, args, i, rows, visited, out_file, writes, result, exc,
                   fd, page, hc>>

\* Lines 237-242: build the URL of the next page and navigate to it, then hand
\* the page to _handle_challenge; a failed navigation raises.
CL_Goto ==
    /\ cmd = "links" /\ pc = "loop"
    /\ HasPage(i)
    /\ visited' = Append(visited, build_search_url(i.pg, styles_iter[i.s], years_iter[i.y]))
    /\ \/ \E p \in PageSamples :
            /\ page' = p
            /\ hc' = HandleChallengeCall
            /\ pc' = "challenge"
            /\ UNCHANGED exc
       \/ /\ exc' = Some(PlaywrightError)
          /\ pc' = "close_context"
          /\ UNCHANGED <<page, hc>>
    /\ UNCHANGED <<cmd, cfg, args, i, rows, out_file, writes, result, fd, sess>>

\* Lines 243-259: pause, scroll, wait for the listing; on a timeout continue
\* with the next page, else collect the anchors.
CL_Listing ==
    /\ cmd = "links" /\ pc = "challenge"
    /\ hc.pc = "returned"
    /\ hc' = NoFrame
    /\ \/ /\ i' = AfterTimeout(i)
          /\ UNCHANGED rows
       \/ /\ rows' = rows \o LinksOf(ListingAnchors(i.pg))
          /\ i' = NextPos(i)
    /\ pc' = "loop"
    /\ UNCHANGED <<cmd, cfg, args, visited, out_file, writes, result, exc, fd, sess, page>>

\* Line 260: after the loops, _save_state, inside the try block.
CL_SaveState ==
    /\ cmd = "links" /\ pc = "loop"
    /\ ~HasPage(i)
    /\ \/ /\ ~SavesState
          /\ UNCHANGED <<sess, exc>>
       \/ /\ SavesState
          /\ sess' = StateSaved(sess)
          /\ UNCHANGED exc
       \/ /\ SavesState
          /\ sess' = StateSaveFailed(sess)
          /\ exc' = Some(PlaywrightError)
    /\ pc' = "close_context"
    /\ UNCHANGED <<cmd, cfg, args, i, rows, visited, out_file, writes, result, fd, page, hc>>

\* Lines 261-263: finally, context.close(), then the test of the browser handle.
CL_CloseContext ==
    /\ cmd = "links" /\ pc = "close_context"
    /\ sess' = ContextClosed(sess)
    /\ pc' = IF sess.browser = "open" THEN "close_browser" ELSE "exit"
    /\ UNCHANGED <<cmd, cfg, args, i, rows, visited, out_file, writes, result, exc,
                   fd, page, hc>>

\* Line 264: browser.close()
CL_CloseBrowser ==
    /\ cmd = "links" /\ pc = "close_browser"
    /\ sess' = BrowserClosed(sess)
    /\ pc' = "exit"
    /\ UNCHANGED <<cmd, cfg, args, i, rows, visited, out_file, writes, result, exc,
                   fd, page, hc>>

\* Line 234: leave the with block; an exception in flight leaves collect_links.
CL_Exit ==
    /\ cmd = "links" /\ pc = "exit"
    /\ sess' = PlaywrightStopped(sess)
    /\ page' = NoPage
    /\ pc' = IF exc # None THEN "raised" ELSE "frame"
    /\ UNCHANGED <<cmd, cfg, args, i, rows, visited, out_file, writes, result, exc, fd, hc>>

\* Lines 266-272: deduplicate, write the CSV if asked, return the frame.
CL_Return ==
    /\ cmd = "links" /\ pc = "frame"
    /\ LET df == Deduplicated(rows)
       IN  /\ result' = Some(df)
           /\ IF TruthyStr(args.out_csv)
              THEN out_file' = Some(df) /\ writes' = Append(writes, df)
              ELSE UNCHANGED <<out_file, writes>>
    /\ pc' = "done"
    /\ UNCHANGED <<cmd, cfg, args, i, rows, visited, exc, fd, sess, page, hc>>

CollectLinks ==
    CL_Open \/ CL_Goto \/ CL_Listing \/ CL_SaveState \/ CL_CloseContext
        \/ CL_CloseBrowser \/ CL_Exit \/ CL_Return

NextLinks == CollectLinks \/ HandleChallenge

SpecLinks == InitLinks /\ [][NextLinks]_vars

-----------------------------------------------------------------------------
(* One function at a time *)

NextPure == ApplyBuildSearchUrl \/ ApplyRegionAssignment \/ CL_Return

SpecPure == InitPure /\ [][NextPure]_vars

-----------------------------------------------------------------------------
(* Properties of scrape_details_from_csv (specification Spec) *)

Data == args.df_links.data

HasUrlColumn == "URL" \in args.df_links.columns \/ "url" \in args.df_links.columns

IsErrorRow(r) == DOMAIN r = {"URL", "error"}

\* C1, as stated: for every links CSV the returned frame has exactly one row
\* per input row, in input order, the k-th row carrying the k-th input URL.
C1_AsStated ==
    (cmd = "details" /\ pc = "done") =>
        /\ Len(The(result)) = Len(Data)
        /\ \A k \in 1..Len(Data) : The(result)[k]["URL"] = RowUrl(args.df_links, Data[k])

\* C1, amended: when the links CSV has a URL or url column, the rows collected
\* so far are one per input row visited, in input order, each carrying the
\* str() of its input cell, whether its fetch returned or raised, and the
\* returned frame is those rows for all input rows; when the CSV has neither
\* column every row is skipped and the returned frame is empty.
C1_RowPerInputRow ==
    cmd = "details" =>
        /\ HasUrlColumn =>
              /\ Len(rows) = i
              /\ \A k \in 1..Len(rows) :
                    /\ rows[k]["URL"] = RowUrl(args.df_links, Data[k])
                    /\ rows[k]["URL"] # ""
        /\ ~HasUrlColumn => rows = <<>>
        /\ pc = "done" => (result = Some(rows) /\ i = Len(Data))

\* C1 witness: a two-row CSV whose first fetch raised and whose second
\* returned, both rows present in input order.
C1_Witness ==
    /\ cmd = "details" /\ pc = "done" /\ HasUrlColumn
    /\ Len(Data) = 2 /\ Len(The(result)) = 2
    /\ IsErrorRow(The(result)[1]) /\ ~IsErrorRow(The(result)[2])
    /\ The(result)[1]["URL"] = "nan" /\ The(result)[2]["URL"] = "u1"

\* The writes a run over a CSV with a URL column has made once n rows are done:
\* one per multiple of k up to n, the j-th holding the first j*k rows.
CheckpointWritesUpTo(n) ==
    LET k == args.checkpoint_every
    IN  /\ Len(writes) >= n \div k
        /\ \A j \in 1..(n \div k) :
              /\ Len(writes[j]) = j * k
              /\ writes[j] = SubSeq(rows, 1, j * k)

\* C2, as stated: with an output path and checkpoint_every = k over an n-row
\* input, the file is written after each row whose position is a multiple of
\* k, with the rows 1..position, and once more at the end with all n rows:
\* n div k + 1 writes.
C2_AsStated ==
    (cmd = "details" /\ pc = "done" /\ TruthyStr(args.out_csv)) =>
        LET n == Len(Data)
            k == args.checkpoint_every
        IN  /\ Len(writes) = n \div k + 1
            /\ CheckpointWritesUpTo(n)
            /\ Len(writes[Len(writes)]) = n
            /\ writes[Len(writes)] = rows

\* C2, amended: the same, when the links CSV has a URL or url column: while
\* the loop runs the file has been written once per multiple of k among the
\* rows done, each write holding the rows up to that position, and at the end
\* once more with all n rows.  When the CSV has neither column no row is
\* processed and the only write is the final one, with no rows.  Without an
\* output path nothing is written.  The file holds what was written last.
C2_CheckpointWrites ==
    cmd = "details" =>
        LET n == Len(Data)
            k == args.checkpoint_every
        IN  /\ (TruthyStr(args.out_csv) /\ HasUrlColumn /\ pc = "loop") =>
                  (Len(writes) = i \div k /\ CheckpointWritesUpTo(i))
            /\ (TruthyStr(args.out_csv) /\ HasUrlColumn /\ pc = "done") =>
                  /\ Len(writes) = n \div k + 1
                  /\ CheckpointWritesUpTo(n)
                  /\ Len(writes[Len(writes)]) = n
                  /\ writes[Len(writes)] = rows
            /\ (TruthyStr(args.out_csv) /\ ~HasUrlColumn) =>
                  writes = (IF pc = "done" THEN <<<<>>>> ELSE <<>>)
            /\ ~TruthyStr(args.out_csv) => writes = <<>>
            /\ out_file = (IF writes = <<>> THEN None ELSE Some(writes[Len(writes)]))

\* C2 witness: n = 2 = k, so the last row is a checkpoint row: the file was
\* written after row 2 and once more at the end, both times with two rows.
C2_Witness ==
    /\ cmd = "details" /\ pc = "done" /\ HasUrlColumn /\ TruthyStr(args.out_csv)
    /\ Len(Data) = 2 /\ args.checkpoint_every = 2
    /\ Len(writes) = 2 /\ Len(writes[1]) = 2 /\ Len(writes[2]) = 2

\* C3: an exception that fetch_detail raises for a row is caught for that row:
\* the batch never aborts; the step that receives the exception appends a
\* record with exactly the keys URL and error (the row's URL, the exception's
\* text), makes the checkpoint write if the row is a checkpoint row, and goes
\* on to the next row; and the batch ends only after all rows, with the final
\* write made.
C3_FailureContained ==
    /\ [](cmd = "details" => pc \in {"loop", "done"})
    /\ [][(cmd = "details" /\ fd.pc = "done" /\ exc # None) =>
            /\ pc' = "loop" /\ i' = i + 1 /\ exc' = None /\ fd'.pc = "idle"
            /\ Len(rows') = Len(rows) + 1
            /\ SubSeq(rows', 1, Len(rows)) = rows
            /\ IsErrorRow(rows'[Len(rows')])
            /\ rows'[Len(rows')]["URL"] = fd.url
            /\ rows'[Len(rows')]["error"] = The(exc).msg
            /\ Checkpoints(i) => (out_file' = Some(rows') /\ writes' = Append(writes, rows'))]_vars
    /\ []((cmd = "details" /\ pc = "done") =>
            /\ i = Len(Data)
            /\ TruthyStr(args.out_csv) => out_file = Some(rows))

\* C3 witness: the first row's fetch raised, the second row was still fetched
\* and returned a full record, and the file was written.
C3_Witness ==
    /\ cmd = "details" /\ pc = "done"
    /\ Len(rows) = 2
    /\ IsErrorRow(rows[1]) /\ DOMAIN rows[2] = DetailKeys
    /\ out_file = Some(rows)

-----------------------------------------------------------------------------
(* Properties of collect_links *)

\* Positions of the first occurrence of each URL among the collected rows.
FirstOccurrences ==
    {j \in 1..Len(rows) : \A m \in 1..(j - 1) : rows[m]["URL"] # rows[j]["URL"]}

NthFirstOccurrence(n) ==
    CHOOSE j \in FirstOccurrences : Cardinality({m \in FirstOccurrences : m <= j}) = n

\* C4: the frame collect_links returns is the collected rows without the
\* later occurrences of a URL already seen: no two rows share a URL, the
\* rows are the first occurrences in their collected order (so each URL
\* keeps its first Wine Name), and deduplicating the result again changes
\* nothing.  (Specification SpecPure.)
C4_FirstOccurrenceKept ==
    (cmd = "links" /\ pc = "done") =>
        LET out == The(result)
        IN  /\ \A a, b \in 1..Len(out) : a # b => out[a]["URL"] # out[b]["URL"]
            /\ Len(out) = Cardinality(FirstOccurrences)
            /\ \A n \in 1..Len(out) : out[n] = rows[NthFirstOccurrence(n)]
            /\ Deduplicated(out) = out

\* C4 witness: three collected rows, the third repeating the first row's URL
\* under another name; two rows are returned.
C4_Witness ==
    /\ cmd = "links" /\ pc = "done"
    /\ Len(rows) = 3 /\ Len(The(result)) = 2
    /\ rows[1]["URL"] = rows[3]["URL"]
    /\ rows[1]["Wine Name"] # rows[3]["Wine Name"]
    /\ The(result)[1] = rows[1]

\* The iteration the claim describes: the number of styles and years, an unset
\* or empty collection counting as one sentinel, and the k-th search page in
\* style-major, then year, then page order.
StyleCount ==
    IF args.styles = None \/ The(args.styles) = <<>> THEN 1 ELSE Len(The(args.styles))

YearCount ==
    IF args.years = None \/ The(args.years) = <<>> THEN 1 ELSE Len(The(args.years))

CandidatePages == StyleCount * YearCount * args.max_pages

KthStyle(k) ==
    IF args.styles = None \/ The(args.styles) = <<>> THEN None
    ELSE Some(The(args.styles)[(k - 1) \div (YearCount * args.max_pages) + 1])

KthYear(k) ==
    IF args.years = None \/ The(args.years) = <<>> THEN None
    ELSE Some(The(args.years)[(((k - 1) \div args.max_pages) % YearCount) + 1])

KthPageUrl(k) ==
    build_search_url(((k - 1) % args.max_pages) + 1, KthStyle(k), KthYear(k))

\* C5: collect_links navigates to the len(styles) x len(years) x max_pages
\* search pages once each, in style-major, then year, then page order: what
\* it has visited is always the first pages of that order, and when it leaves
\* the loops without an exception it has visited all of them, whichever
\* listing waits timed out.  (Specification SpecLinks.)
C5_VisitsEveryPage ==
    cmd = "links" =>
        /\ Len(visited) <= CandidatePages
        /\ \A k \in 1..Len(visited) : visited[k] = KthPageUrl(k)
        /\ (pc = "loop" /\ ~HasPage(i)) => Len(visited) = CandidatePages
        /\ pc \in {"frame", "done"} => Len(visited) = CandidatePages

\* C5 witness: two styles, two years, two pages; every listing wait timed out
\* (no row was collected) and all eight pages were visited.
C5_Witness ==
    /\ cmd = "links" /\ pc = "done"
    /\ CandidatePages = 8 /\ Len(visited) = 8
    /\ rows = <<>>

SaveIfConfigured == IF SavesState THEN <<"save">> ELSE <<>>

BrowserCloseIfOwned == IF TruthyStr(cfg.user_data_dir) THEN <<>> ELSE <<"browser.close">>

\* C10, as stated: one session is opened, and on every exit path, an exception
\* raised while visiting a page included, the state is persisted when a path
\* is configured, then the context is closed, then the browser if owned.
C10_AsStated ==
    (cmd = "links" /\ pc \in {"raised", "frame", "done"}) =>
        sess.log = <<"open">> \o SaveIfConfigured \o <<"context.close">>
                       \o BrowserCloseIfOwned

\* C10, amended: one collect_links run opens exactly one session, before the
\* first page; nothing is opened, saved or closed while pages are visited;
\* on every exit path the context is closed once, then the browser handle if
\* owned, and nothing is left to the driver.  The state is saved, before the
\* context is closed, only when the whole iteration completed without an
\* exception and a path is configured; an exception raised while visiting a
\* page skips the save, and a save that itself raises is still followed by
\* the teardown and then propagates.  (Specification SpecLinks.)
C10_OneSessionReleased ==
    cmd = "links" =>
        /\ sess.opened = (IF pc = "start" THEN 0 ELSE 1)
        /\ pc \in {"loop", "challenge"} =>
              (sess.log = <<"open">> /\ sess.context = "open" /\ sess.open = 1)
        /\ pc \in {"raised", "frame", "done"} =>
              /\ sess.open = 0
              /\ sess.context = "closed"
              /\ sess.browser = (IF TruthyStr(cfg.user_data_dir) THEN "none" ELSE "closed")
              /\ \E saved \in {<<>>, <<"save">>, <<"save failed">>} :
                    /\ sess.log = <<"open">> \o saved \o <<"context.close">>
                                      \o BrowserCloseIfOwned
                    /\ saved = <<"save">> <=>
                          (exc = None /\ SavesState /\ Len(visited) = CandidatePages)
                    /\ saved = <<"save failed">> =>
                          (exc # None /\ SavesState /\ Len(visited) = CandidatePages)
        /\ pc = "raised" <=> exc # None /\ pc \notin {"close_context", "close_browser", "exit"}

\* C10 witness: a navigation raised on the second page with a storage-state
\* path configured and a browser handle owned; the run ended with the context
\* and the browser closed and the state not saved.
C10_Witness ==
    /\ cmd = "links" /\ pc = "raised"
    /\ Len(visited) = 2 /\ CandidatePages > 2
    /\ SavesState /\ ~TruthyStr(cfg.user_data_dir)
    /\ sess.log = <<"open", "context.close", "browser.close">>

-----------------------------------------------------------------------------
(* Properties of fetch_detail and _build_search_url (specification SpecPure) *)

Napa == <<"Napa">>
California == <<"California">>
USA == <<"USA">>

\* C6: with L the region list and v the primary-region value, Country is the
\* last element of L or absent; Region 1 is v if v is present and occurs in
\* L, else absent; Region 2 is L[-2] if L has two elements and L[-2] differs
\* from v, else absent; Region 3 is L[-3] likewise.  L holds the non-empty
\* trimmed texts of the region elements in page order.
C6_RegionAssignment ==
    (cmd = "region_assignment" /\ pc = "done") =>
        LET r == The(result)
            L == r.region_list
            v == r.region_value
            n == Len(L)
        IN  /\ \A j \in 1..n : L[j] # <<>> /\ Head(L[j]) # WS /\ L[j][Len(L[j])] # WS
            /\ n <= Len(args.region_elems)
            /\ r.country = (IF n = 0 THEN None ELSE Some(L[n]))
            /\ r.region_1 = (IF v # None /\ (\E j \in 1..n : Some(L[j]) = v) THEN v ELSE None)
            /\ r.region_2 = (IF n >= 2 /\ Some(L[n - 1]) # v THEN Some(L[n - 1]) ELSE None)
            /\ r.region_3 = (IF n >= 3 /\ Some(L[n - 2]) # v THEN Some(L[n - 2]) ELSE None)
            /\ (L = <<Napa, California, USA>> /\ v = Some(Napa)) =>
                  (r.country = Some(USA) /\ r.region_1 = Some(Napa)
                   /\ r.region_2 = Some(California) /\ r.region_3 = None)
            /\ (L = <<USA>> /\ v = Some(USA)) =>
                  (r.country = Some(USA) /\ r.region_1 = Some(USA)
                   /\ r.region_2 = None /\ r.region_3 = None)

\* C6 witness: the page lists Napa, California, USA (with padding) and names
\* Napa as primary region.
C6_Witness ==
    /\ cmd = "region_assignment" /\ pc = "done"
    /\ args.region_elems = <<Some(<<WS, "Napa", WS>>), Some(California), Some(USA)>>
    /\ The(result).region_list = <<Napa, California, USA>>
    /\ The(result).region_value = Some(Napa)
    /\ The(result).region_1 = Some(Napa)
    /\ The(result).region_3 = None

HasPiece(url, piece) == \E j \in 1..Len(url) : url[j] = piece

HasPageNumber(url, n) ==
    \E j \in 1..(Len(url) - 1) : url[j] = "page=" /\ url[j + 1] = ToString(n)

\* C7, as stated: the URL starts with the base host and contains page=<page>;
\* it has a wine_style parameter iff a style was provided and a pub_date
\* parameter iff a year was provided.
C7_AsStated ==
    (cmd = "_build_search_url" /\ pc = "done") =>
        LET url == The(result)
        IN  /\ url[1] = BASE
            /\ HasPageNumber(url, args.page)
            /\ HasPiece(url, "wine_style=") <=> args.style # None
            /\ HasPiece(url, "pub_date=") <=> args.year # None

\* C7, amended: the URL starts with the base host and contains page=<page>;
\* it has a wine_style parameter iff a non-empty style was provided and a
\* pub_date parameter iff a non-zero year was provided.
C7_UrlParameters ==
    (cmd = "_build_search_url" /\ pc = "done") =>
        LET url == The(result)
        IN  /\ url[1] = BASE
            /\ HasPageNumber(url, args.page)
            /\ HasPiece(url, "wine_style=") <=> args.style \notin {None, Some("")}
            /\ HasPiece(url, "pub_date=") <=> args.year \notin {None, Some(0)}

\* C7 witness: page 2 of the Red wines published in 2020.
C7_Witness ==
    /\ cmd = "_build_search_url" /\ pc = "done"
    /\ args = [page |-> 2, style |-> Some("Red"), year |-> Some(2020)]
    /\ The(result) = <<BASE, "?s=", "&", "search_type=ratings", "&", "page=", "2", "&",
                       "drink_type=wine", "&", "wine_style=", "Red", "&",
                       "pub_date=", "%253A", "2020">>

-----------------------------------------------------------------------------
(* Properties of _handle_challenge and of fetch_detail's teardown (Spec) *)

\* C8: a call of _handle_challenge on a page detected as challenged sleeps
\* the cooldown, a duration within the configured window, before it returns,
\* however the poll loop ended; a call on an unchallenged page returns
\* without sleeping.
C8_CooldownBeforeReturn ==
    hc.pc = "returned" =>
        IF hc.entry
        THEN /\ hc.cooldown # None
             /\ The(hc.cooldown) \in cfg.cooldown_range_s[1]..cfg.cooldown_range_s[2]
        ELSE hc.cooldown = None

\* C9: when fetch_detail hands its record or its exception to the caller, it
\* has saved the state (if a path is configured), then closed the context,
\* then closed the browser handle if owned; the context is never left open,
\* also when the save itself fails.
C9_TeardownOnEveryExit ==
    fd.pc = "done" =>
        /\ sess.context = "closed"
        /\ sess.browser = (IF TruthyStr(cfg.user_data_dir) THEN "none" ELSE "closed")
        /\ \E saved \in {<<"save">>, <<"save failed">>} :
              sess.log = <<"open">> \o (IF SavesState THEN saved ELSE <<>>)
                             \o <<"context.close">> \o BrowserCloseIfOwned

-----------------------------------------------------------------------------
(* One run of the system: either entry point (specification SpecRun) *)

InitRun == InitDetails \/ InitLinks

NextRun ==
    SD_Row \/ SD_Collect \/ SD_Finish \/ FetchDetail \/ CollectLinks
        \/ HandleChallenge

SpecRun == InitRun /\ [][NextRun]_vars

\* A session none of whose handles is open any more
Released(s) == s.open = 0 /\ s.context # "open" /\ s.browser # "open"

\* C11: within one run (collect_links, or scrape_details_from_csv over any
\* rows with any mix of succeeding and failing fetches) at most one browser
\* session is open at any time: a session is opened only when no context and
\* no browser of an earlier session is still open, and between two calls of
\* fetch_detail, also after one that raised, nothing is open.
C11_OneSessionAtATime ==
    /\ [](/\ sess.open \in {0, 1}
          /\ sess.open = 1 <=> sess.context = "open")
    /\ [][sess'.opened # sess.opened =>
              /\ Released(sess)
              /\ sess'.opened = sess.opened + 1
              /\ sess'.open = 1]_vars
    /\ []((cmd = "details" /\ fd.pc \in {"idle", "call", "done"}) => Released(sess))
    /\ []((cmd = "links" /\ pc \in {"start", "raised", "frame", "done"}) => Released(sess))

\* C11 witness: the fetch of the first row raised and became an error row,
\* and the session of the second row's fetch, the second of the run, is the
\* only one open.
C11_Witness ==
    /\ cmd = "details"
    /\ Len(rows) = 1 /\ IsErrorRow(rows[1])
    /\ fd.pc = "goto"
    /\ sess.opened = 2 /\ sess.open = 1 /\ sess.context = "open"

====
